---- MODULE Spec2Model ----
(***************************************************************************)
(* A model of the Etsy top-terms identifier (src/main.py).                 *)
(*                                                                         *)
(* Text is a sequence of one-character strings, a token is such a sequence *)
(* without white space.  A Python list is a sequence, a Python dict is a   *)
(* function, a value that may be None is a tagged record.  A call that may *)
(* raise yields an outcome record [exc, val].                              *)
(***************************************************************************)
EXTENDS Naturals, Sequences, FiniteSets

VARIABLES
    pc,                 \* the position of the running program or call
    STOP_WORDS,         \* the stop-word set loaded from config.json
    procedure_command,  \* the last line read at USER_PROMPT
    caller,             \* which analysis is on the stack: "default", "custom"
    shop_names,         \* the argument of get_shops_and_listings
    shops,              \* its result list, as built so far
    response,           \* the outcome of the last requests.get
    shop_listings,      \* the listings of the shop at hand
    exc,                \* the exception that is propagating, or "none"
    console,            \* the lines printed since the last line was read
    handled,            \* how often the loop body ran on procedure_command
    analysed,           \* indices of shop_names the pipeline was invoked for
    arg,                \* a called function's arguments (function-level runs)
    ret                 \* its outcome (function-level runs)

vars == <<pc, STOP_WORDS, procedure_command, caller, shop_names, shops,
          response, shop_listings, exc, console, handled, analysed, arg, ret>>

session_vars == <<procedure_command, caller, shop_names, shops, response,
                  shop_listings, exc, console, handled, analysed>>

-----------------------------------------------------------------------------
(* Python values *)

PyNone == [tag |-> "None"]

PyList(items) == [tag |-> "list", items |-> items]

\* the truth value Python gives to None or a list
Truthy(v) == v.tag = "list" /\ Len(v.items) > 0

Return(v) == [exc |-> "none", val |-> v]

Raise(e) == [exc |-> e, val |-> <<>>]

Range(s) == {s[i] : i \in DOMAIN s}

\* all sequences over S of length at most n
RECURSIVE SeqsUpTo(_, _)
SeqsUpTo(S, n) ==
    IF n = 0 THEN {<<>>}
    ELSE LET shorter == SeqsUpTo(S, n - 1)
         IN  shorter \cup {Append(s, x) : s \in shorter, x \in S}

-----------------------------------------------------------------------------
(* str methods *)

LowerCase ==
    <<"a", "b", "c", "d", "e", "f", "g", "h", "i", "j", "k", "l", "m",
      "n", "o", "p", "q", "r", "s", "t", "u", "v", "w", "x", "y", "z">>

UpperCase ==
    <<"A", "B", "C", "D", "E", "F", "G", "H", "I", "J", "K", "L", "M",
      "N", "O", "P", "Q", "R", "S", "T", "U", "V", "W", "X", "Y", "Z">>

char_isalpha(c) == c \in Range(LowerCase) \cup Range(UpperCase)

char_isspace(c) == c \in {" ", "\t", "\n"}

char_upper(c) ==
    IF c \in Range(LowerCase)
    THEN UpperCase[CHOOSE i \in DOMAIN LowerCase : LowerCase[i] = c]
    ELSE c

\* str.isalpha(): every character alphabetic and at least one character
str_isalpha(word) ==
    Len(word) > 0 /\ \A i \in DOMAIN word : char_isalpha(word[i])

\* str.upper()
str_upper(text) == [i \in DOMAIN text |-> char_upper(text[i])]

\* str.split(): the maximal runs of characters that are not white space
RECURSIVE split_from(_, _, _)
split_from(text, current, tokens) ==
    IF text = <<>>
    THEN IF current = <<>> THEN tokens ELSE Append(tokens, current)
    ELSE IF char_isspace(Head(text))
         THEN split_from(Tail(text), <<>>,
                         IF current = <<>> THEN tokens
                         ELSE Append(tokens, current))
         ELSE split_from(Tail(text), Append(current, Head(text)), tokens)

str_split(text) == split_from(text, <<>>, <<>>)

-----------------------------------------------------------------------------
(* remove_non_alpha *)

remove_non_alpha_keeping_digits(word) ==
    SelectSeq(word, LAMBDA c : char_isalpha(c) \/ c \in {"0", "1", "2", "3", "4",
                                                        "5", "6", "7", "8", "9"})

RECURSIVE remove_non_alpha(_)
remove_non_alpha(word) ==
    IF word = <<>> THEN <<>>
    ELSE (IF char_isalpha(Head(word)) THEN <<Head(word)>> ELSE <<>>)
         \o remove_non_alpha(Tail(word))

-----------------------------------------------------------------------------
(* clean_words *)

\* the first loop: [new_words, words], words being the argument as the loop
\* leaves it (words[n] = word)
RECURSIVE strip_loop(_, _, _, _)
strip_loop(words, shop_name, n, new_words) ==
    IF n > Len(words) THEN <<new_words, words>>
    ELSE LET word == words[n]
         IN  IF ~str_isalpha(word) /\ word # shop_name
             THEN LET stripped == remove_non_alpha(word)
                  IN  strip_loop([words EXCEPT ![n] = stripped], shop_name, n + 1,
                                 IF stripped # <<>>
                                 THEN Append(new_words, stripped)
                                 ELSE new_words)
             ELSE strip_loop(words, shop_name, n + 1, Append(new_words, word))

\* the second step: the comprehension over new_words
remove_stop_words(new_words, stop_words) ==
    SelectSeq(new_words, LAMBDA word : word \notin stop_words)

clean_words_filtering_first(words, shop_name, stop_words) ==
    strip_loop(remove_stop_words(words, stop_words), shop_name, 1, <<>>)[1]

clean_words(words, shop_name, stop_words) ==
    remove_stop_words(strip_loop(words, shop_name, 1, <<>>)[1], stop_words)

\* the caller's list after the call
clean_words_argument(words, shop_name) ==
    strip_loop(words, shop_name, 1, <<>>)[2]

-----------------------------------------------------------------------------
(* get_descriptions_and_titles *)

\* listing[key], which raises KeyError when the listing has no such key
dict_getitem(listing, key) ==
    IF key \in DOMAIN listing THEN Return(listing[key]) ELSE Raise("KeyError")

\* try: shop_words += listing[key].upper().split()  except KeyError: pass
try_extend(shop_words, listing, key) ==
    LET got == dict_getitem(listing, key)
    IN  IF got.exc = "KeyError" THEN shop_words
        ELSE shop_words \o str_split(str_upper(got.val))

extend_with_listing_in_one_try(shop_words, listing) ==
    IF dict_getitem(listing, "description").exc = "KeyError" THEN shop_words
    ELSE try_extend(try_extend(shop_words, listing, "description"),
                    listing, "title")

\* the body of the loop over the listings
extend_with_listing(shop_words, listing) ==
    try_extend(try_extend(shop_words, listing, "description"), listing, "title")

RECURSIVE listings_loop(_, _)
listings_loop(listings, shop_words) ==
    IF listings = <<>> THEN shop_words
    ELSE listings_loop(Tail(listings),
                       extend_with_listing(shop_words, Head(listings)))

get_descriptions_and_titles(listings) == Return(listings_loop(listings, <<>>))

-----------------------------------------------------------------------------
(* get_unique_terms_counts *)

list_count_after_first(words, word) ==
    Cardinality({i \in DOMAIN words : i > 1 /\ words[i] = word})

\* words.count(word)
RECURSIVE list_count(_, _)
list_count(words, word) ==
    IF words = <<>> THEN 0
    ELSE (IF Head(words) = word THEN 1 ELSE 0) + list_count(Tail(words), word)

\* the dict word_counts; the order in which set(words) is iterated decides
\* the order of its keys, which max_keys below leaves open
get_unique_terms_counts(words) ==
    [word \in Range(words) |-> list_count(words, word)]

-----------------------------------------------------------------------------
(* get_top_n_counts *)

min_keys(word_counts) ==
    {k \in DOMAIN word_counts :
        \A other \in DOMAIN word_counts : word_counts[k] <= word_counts[other]}

\* the keys max(word_counts, key=...) may return: max returns the first key
\* of maximal count in the dict's order, which is the iteration order of a
\* set of strings and differs from run to run
max_keys(word_counts) ==
    {k \in DOMAIN word_counts :
        \A other \in DOMAIN word_counts : word_counts[k] >= word_counts[other]}

\* del word_counts[top_word]
dict_del(word_counts, top_word) ==
    [k \in DOMAIN word_counts \ {top_word} |-> word_counts[k]]

\* the outcomes of the remaining iterations of the loop over range(n);
\* max of an empty dict raises ValueError
RECURSIVE top_n_loop(_, _, _)
top_n_loop(word_counts, top_words, remaining) ==
    IF remaining = 0 THEN {Return(top_words)}
    ELSE IF DOMAIN word_counts = {} THEN {Raise("ValueError")}
    ELSE UNION { top_n_loop(dict_del(word_counts, top_word),
                            Append(top_words, <<top_word, word_counts[top_word]>>),
                            remaining - 1)
                 : top_word \in max_keys(word_counts) }

\* the set of outcomes of get_top_n_counts(words, n)
get_top_n_counts(words, n) ==
    top_n_loop(get_unique_terms_counts(words), <<>>, n)

-----------------------------------------------------------------------------
(* get_shop_listings *)

\* json.loads(shop.text): a body that is no JSON raises JSONDecodeError
json_loads(text) ==
    IF text.json = "invalid" THEN Raise("JSONDecodeError") ELSE Return(text)

\* parsed['results']: a JSON array cannot be indexed by a string (TypeError),
\* a JSON object without the key raises KeyError
json_results(parsed) ==
    IF parsed.json = "array" THEN Raise("TypeError")
    ELSE dict_getitem(parsed.members, "results")

\* the outcome of get_shop_listings once requests.get has returned shop
get_shop_listings(shop) ==
    IF shop.status_code = 200
    THEN LET parsed == json_loads(shop.text)
         IN  IF parsed.exc # "none" THEN parsed
             ELSE LET results == json_results(parsed.val)
                  IN  IF results.exc # "none" THEN results
                      ELSE Return(PyList(results.val))
    ELSE Return(PyNone)

-----------------------------------------------------------------------------
(* Console output *)

TopN == 5

MaxConsole == 32

MaxHandled == 2

WELCOME_MESSAGE == "Welcome to the Etsy Top Terms Identifier. Press Enter to begin."

USER_PROMPT == "Enter the name of an Etsy store you want analysed. Type 'exit' to quit the program: "

CONNECTION_ERROR_MESSAGE == "It looks like you don't have internet. Please connect to the internet and press enter to try again."

CANNOT_FIND_SHOP_ERROR_MESSAGE == "Sorry! We can't find "

RUNNING_ANALYSIS_MESSAGE == "Running Analysis... Depending on your internet connection, this may take a moment."

\* a printed line: a fixed text, and the shop name or the word counts
\* formatted into it
Line(text, shop_name, words) == [text |-> text, shop |-> shop_name, words |-> words]

\* print(line); the console keeps the last MaxConsole lines
RECURSIVE print(_, _)
print(out, lines) ==
    IF lines = <<>> THEN out
    ELSE print(IF Len(out) >= MaxConsole THEN Append(Tail(out), Head(lines))
               ELSE Append(out, Head(lines)),
               Tail(lines))

\* the concatenation of f"{word_count}" over the pairs
format_analysis_for_console(shop) == shop[2].items

print_shop_analysis_to_console(shop) ==
    << Line("Top 5 Words for :", shop[1], <<>>),
       Line("words_string", <<>>, format_analysis_for_console(shop)),
       Line(" ", <<>>, <<>>) >>

cannot_find_shop_error(shop_name) ==
    << Line(CANNOT_FIND_SHOP_ERROR_MESSAGE, shop_name, <<>>) >>

\* the lines print_analysis_to_console prints
RECURSIVE print_analysis_to_console(_)
print_analysis_to_console(shop_list) ==
    IF shop_list = <<>> THEN <<>>
    ELSE (IF Truthy(Head(shop_list)[2])
          THEN print_shop_analysis_to_console(Head(shop_list))
          ELSE cannot_find_shop_error(Head(shop_list)[1]))
         \o print_analysis_to_console(Tail(shop_list))

-----------------------------------------------------------------------------
(* The program's inputs: the lines typed, and what the Etsy API answers *)

DefaultShopNames ==
    << <<"E", "l", "e", "m", "e", "n", "t", "8", "3">>,
       <<"L", "D", "a", "w", "n", "i", "n", "g", "S", "c", "o", "t", "t">>,
       <<"P", "e", "g", "a", "n", "d", "A", "w", "l">>,
       <<"S", "i", "n", "S", "c", "i", "s", "s", "o", "r", "s", "B", "o", "u", "t", "i", "q", "u", "e">>,
       <<"O", "x", "A", "n", "d", "P", "i", "n", "e">>,
       <<"v", "o", "l", "a", "r", "i", "s">>,
       <<"m", "o", "d", "e", "r", "n", "t", "e", "x", "t", "u", "r", "e", "s">>,
       <<"C", "a", "r", "v", "e", "C", "r", "a", "f", "t", "w", "o", "r", "k", "s">>,
       <<"E", "b", "a", "n", "i", "s", "t", "e", "r", "i", "a", "C", "a", "v", "a", "l", "l", "a", "r", "o">>,
       <<"S", "h", "e", "e", "t", "M", "u", "s", "i", "c", "E", "p", "h", "e", "m", "e", "r", "a">> >>

EXIT == <<"E", "X", "I", "T">>

\* the lines the user may type: nothing, the exit command in two spellings,
\* a shop name
Commands ==
    { <<>>,
      <<"e", "x", "i", "t">>,
      <<"E", "x", "i", "t">>,
      <<"v", "o", "l", "a", "r", "i", "s">> }

\* the stop words of config.json
ConfiguredStopWords == {<<"A">>, <<"F", "O", "R">>}

\* a shop whose words are BLUE, MUG and COFFEE once A and FOR are removed
PoorListings ==
    << [title |-> <<"B", "l", "u", "e", " ", "M", "u", "g">>,
        description |-> <<"A", " ", "b", "l", "u", "e", " ", "m", "u", "g", " ",
                          "f", "o", "r", " ", "c", "o", "f", "f", "e", "e">>] >>

\* a shop with five distinct words, OAK 6, DESK 4, LAMP 3, TRAY 2, BOWL 1;
\* its second listing has no description
RichListings ==
    << [title |-> <<"O", "a", "k", " ", "D", "e", "s", "k">>,
        description |-> <<"o", "a", "k", ",", " ", "t", "r", "a", "y", " ",
                          "o", "a", "k", " ", "l", "a", "m", "p", " ",
                          "d", "e", "s", "k", " ", "o", "a", "k", " ",
                          "l", "a", "m", "p", " ", "b", "o", "w", "l", " ",
                          "d", "e", "s", "k", " ", "o", "a", "k", " ",
                          "d", "e", "s", "k">>],
       [title |-> <<"O", "a", "k", " ", "l", "a", "m", "p", " ",
                    "t", "r", "a", "y">>] >>

JsonObject(members) == [json |-> "object", members |-> members]

NoMembers == [key \in {} |-> <<>>]

HttpResponse(status_code, text) ==
    [kind |-> "response", status_code |-> status_code, text |-> text]

\* what requests.get may return
HttpResponses ==
    { HttpResponse(404, [json |-> "invalid"]),
      HttpResponse(200, [json |-> "invalid"]),
      HttpResponse(200, [json |-> "array"]),
      HttpResponse(200, JsonObject(NoMembers)),
      HttpResponse(200, JsonObject([results |-> <<>>])),
      HttpResponse(200, JsonObject([results |-> PoorListings])),
      HttpResponse(200, JsonObject([results |-> RichListings])) }

\* the outcomes of requests.get: a response, or no connection
requests_get == {Raise("ConnectionError")} \cup {Return(r) : r \in HttpResponses}

NoResponse == [kind |-> "none"]

-----------------------------------------------------------------------------
(* Bounds and input pools of the function-level runs *)

MaxTokenLen == 4

MaxCleanerWords == 3

MaxListings == 2

MaxWords == 5

MaxN == 5

TokenChars == {"a", "Z", "1", "-"}

CleanerTokens == {<<"A">>, <<"a">>, <<"A", "1">>, <<"1">>, <<"B">>}

CleanerShopNames == {<<"A", "1">>, <<"S">>}

CleanerStopWords == SUBSET {<<"A">>, <<"B">>, <<"A", "1">>}

ListingTexts == {<<"a", " ", "B">>, <<" ", "b", "1", " ">>, <<>>}

ListingKeys == {"description", "title"}

Listings == UNION {[keys -> ListingTexts] : keys \in SUBSET ListingKeys}

Vocabulary == {<<"A">>, <<"B">>, <<"C">>}

\* the program itself is not running during a function-level run
NoSession ==
    /\ procedure_command = <<>>
    /\ caller = "none"
    /\ shop_names = <<>>
    /\ shops = <<>>
    /\ response = NoResponse
    /\ shop_listings = PyNone
    /\ exc = "none"
    /\ console = <<>>
    /\ handled = 0
    /\ analysed = {}

-----------------------------------------------------------------------------
(* remove_non_alpha called on every token up to MaxTokenLen *)

InitNormalizer ==
    /\ pc = "call"
    /\ arg \in SeqsUpTo(TokenChars, MaxTokenLen)
    /\ ret = Return(<<>>)
    /\ STOP_WORDS = {}
    /\ NoSession

CallRemoveNonAlpha ==
    /\ pc = "call"
    /\ ret' = Return(remove_non_alpha(arg))
    /\ pc' = "returned"
    /\ UNCHANGED <<arg, STOP_WORDS, session_vars>>

NextNormalizer == CallRemoveNonAlpha

SpecNormalizer == InitNormalizer /\ [][NextNormalizer]_vars

-----------------------------------------------------------------------------
(* clean_words called on every word list, shop name and stop-word set *)

InitCleaner ==
    /\ pc = "call"
    /\ arg \in [words : SeqsUpTo(CleanerTokens, MaxCleanerWords),
                shop_name : CleanerShopNames]
    /\ ret = Return(<<>>)
    /\ STOP_WORDS \in CleanerStopWords
    /\ NoSession

CallCleanWords ==
    /\ pc = "call"
    /\ ret' = Return(clean_words(arg.words, arg.shop_name, STOP_WORDS))
    /\ arg' = [arg EXCEPT !.words = clean_words_argument(arg.words, arg.shop_name)]
    /\ pc' = "returned"
    /\ UNCHANGED <<STOP_WORDS, session_vars>>

NextCleaner == CallCleanWords

SpecCleaner == InitCleaner /\ [][NextCleaner]_vars

-----------------------------------------------------------------------------
(* get_descriptions_and_titles called on every list of listings *)

InitExtractor ==
    /\ pc = "call"
    /\ arg \in SeqsUpTo(Listings, MaxListings)
    /\ ret = Return(<<>>)
    /\ STOP_WORDS = {}
    /\ NoSession

CallGetDescriptionsAndTitles ==
    /\ pc = "call"
    /\ ret' = get_descriptions_and_titles(arg)
    /\ pc' = "returned"
    /\ UNCHANGED <<arg, STOP_WORDS, session_vars>>

NextExtractor == CallGetDescriptionsAndTitles

SpecExtractor == InitExtractor /\ [][NextExtractor]_vars

-----------------------------------------------------------------------------
(* get_unique_terms_counts called on every word list *)

InitCounter ==
    /\ pc = "call"
    /\ arg \in SeqsUpTo(Vocabulary, MaxWords)
    /\ ret = Return(<<>>)
    /\ STOP_WORDS = {}
    /\ NoSession

CallGetUniqueTermsCounts ==
    /\ pc = "call"
    /\ ret' = Return(get_unique_terms_counts(arg))
    /\ pc' = "returned"
    /\ UNCHANGED <<arg, STOP_WORDS, session_vars>>

NextCounter == CallGetUniqueTermsCounts

SpecCounter == InitCounter /\ [][NextCounter]_vars

-----------------------------------------------------------------------------
(* get_top_n_counts called on every word list and every n up to MaxN *)

InitSelector ==
    /\ pc = "call"
    /\ arg \in [words : SeqsUpTo(Vocabulary, MaxWords), n : 0..MaxN]
    /\ ret = Return(<<>>)
    /\ STOP_WORDS = {}
    /\ NoSession

CallGetTopNCounts ==
    /\ pc = "call"
    /\ \E outcome \in get_top_n_counts(arg.words, arg.n) : ret' = outcome
    /\ pc' = "returned"
    /\ UNCHANGED <<arg, STOP_WORDS, session_vars>>

NextSelector == CallGetTopNCounts

SpecSelector == InitSelector /\ [][NextSelector]_vars

-----------------------------------------------------------------------------
(* The program: __main__, default_analysis, custom_analysis and the loop of *)
(* get_shops_and_listings                                                   *)

Init ==
    /\ pc = "welcome"
    /\ STOP_WORDS = ConfiguredStopWords
    /\ procedure_command = <<>>
    /\ caller = "none"
    /\ shop_names = <<>>
    /\ shops = <<>>
    /\ response = NoResponse
    /\ shop_listings = PyNone
    /\ exc = "none"
    /\ console = <<>>
    /\ handled = 0
    /\ analysed = {}
    /\ arg = <<>>
    /\ ret = Return(<<>>)

\* the locals of a finished call are gone
NoCall ==
    /\ shop_names' = <<>>
    /\ shops' = <<>>
    /\ response' = NoResponse
    /\ shop_listings' = PyNone
    /\ analysed' = {}

\* the shop name the loop of get_shops_and_listings is at
shop_index == Len(shops) + 1

\* input(WELCOME_MESSAGE): the line read is dropped
Welcome ==
    /\ pc = "welcome"
    /\ pc' = "default_analysis"
    /\ console' = <<>>
    /\ UNCHANGED <<STOP_WORDS, procedure_command, caller, shop_names, shops,
                   response, shop_listings, exc, handled, analysed, arg, ret>>

\* default_analysis() up to the call of get_shops_and_listings
DefaultAnalysis ==
    /\ pc = "default_analysis"
    /\ caller' = "default"
    /\ console' = print(console, <<Line(RUNNING_ANALYSIS_MESSAGE, <<>>, <<>>)>>)
    /\ shop_names' = DefaultShopNames
    /\ shops' = <<>>
    /\ analysed' = {}
    /\ pc' = "for_shop_name"
    /\ UNCHANGED <<STOP_WORDS, procedure_command, response, shop_listings, exc,
                   handled, arg, ret>>

\* shop_listings = get_shop_listings(shop_name), for the next shop name
GetShopListings ==
    /\ pc = "for_shop_name"
    /\ shop_index <= Len(shop_names)
    /\ \E shop \in requests_get :
          IF shop.exc # "none"
          THEN /\ exc' = shop.exc
               /\ pc' = "raised"
               /\ response' = NoResponse
               /\ UNCHANGED shop_listings
          ELSE LET got == get_shop_listings(shop.val)
               IN  /\ response' = shop.val
                   /\ IF got.exc # "none"
                      THEN /\ exc' = got.exc
                           /\ pc' = "raised"
                           /\ UNCHANGED shop_listings
                      ELSE /\ shop_listings' = got.val
                           /\ pc' = "if_shop_listings"
                           /\ UNCHANGED exc
    /\ UNCHANGED <<STOP_WORDS, procedure_command, caller, shop_names, shops,
                   console, handled, analysed, arg, ret>>

\* the branch taken when shop_listings is a non-empty list: the analysis
\* pipeline, and the shop's entry
AnalyseShop ==
    /\ pc = "if_shop_listings"
    /\ Truthy(shop_listings)
    /\ analysed' = analysed \cup {shop_index}
    /\ LET shop_name == shop_names[shop_index]
           shop_words == get_descriptions_and_titles(shop_listings.items).val
           cleaned == clean_words(shop_words, shop_name, STOP_WORDS)
       IN  \E top_5_words \in get_top_n_counts(cleaned, TopN) :
              IF top_5_words.exc # "none"
              THEN /\ exc' = top_5_words.exc
                   /\ pc' = "raised"
                   /\ UNCHANGED shops
              ELSE /\ shops' = Append(shops, <<shop_name, PyList(top_5_words.val)>>)
                   /\ pc' = "for_shop_name"
                   /\ UNCHANGED exc
    /\ UNCHANGED <<STOP_WORDS, procedure_command, caller, shop_names, response,
                   shop_listings, console, handled, arg, ret>>

\* the else branch: the shop was not found
ShopNotFound ==
    /\ pc = "if_shop_listings"
    /\ ~Truthy(shop_listings)
    /\ shops' = Append(shops, <<shop_names[shop_index], PyNone>>)
    /\ pc' = "for_shop_name"
    /\ UNCHANGED <<STOP_WORDS, procedure_command, caller, shop_names, response,
                   shop_listings, exc, console, handled, analysed, arg, ret>>

\* get_shops_and_listings returns shops and its caller prints them; both
\* callers go on to input(USER_PROMPT)
PrintAnalysis ==
    /\ pc = "for_shop_name"
    /\ shop_index > Len(shop_names)
    /\ IF Len(shops) > 0
       THEN /\ console' =
                  print(console,
                        print_analysis_to_console(shops)
                        \o (IF caller = "default"
                            THEN <<Line("The above are the top 5 terms for 10 different Etsy Shops",
                                        <<>>, <<>>)>>
                            ELSE <<>>))
            /\ pc' = "prompt"
            /\ UNCHANGED exc
       ELSE \* cannot_find_shop_error(shop_names) adds a list to a str
            /\ exc' = "TypeError"
            /\ pc' = "raised"
            /\ UNCHANGED console
    /\ UNCHANGED <<STOP_WORDS, procedure_command, caller, shop_names, shops,
                   response, shop_listings, handled, analysed, arg, ret>>

\* procedure_command = input(USER_PROMPT), at line 349 and at line 363
ReadCommand ==
    /\ pc = "prompt"
    /\ \E line \in Commands : procedure_command' = line
    /\ handled' = 0
    /\ console' = <<>>
    /\ NoCall
    /\ pc' = "while"
    /\ UNCHANGED <<STOP_WORDS, caller, exc, arg, ret>>

\* the while condition is false: the program ends
ExitCommand ==
    /\ pc = "while"
    /\ str_upper(procedure_command) = EXIT
    /\ pc' = "exited"
    /\ UNCHANGED <<STOP_WORDS, procedure_command, caller, shop_names, shops,
                   response, shop_listings, exc, console, handled, analysed,
                   arg, ret>>

\* the loop body on an empty line: it prints, and the loop tests the same
\* procedure_command again (line 363 belongs to the else branch)
NoUserInput ==
    /\ pc = "while"
    /\ str_upper(procedure_command) # EXIT
    /\ procedure_command = <<>>
    /\ console' = print(console, <<Line("No user input detected. Please try again.",
                                        <<>>, <<>>)>>)
    /\ handled' = IF handled < MaxHandled THEN handled + 1 ELSE handled
    /\ pc' = "while"
    /\ UNCHANGED <<STOP_WORDS, procedure_command, caller, shop_names, shops,
                   response, shop_listings, exc, analysed, arg, ret>>

\* the loop body on any other line: custom_analysis([procedure_command]) up
\* to the call of get_shops_and_listings
CustomAnalysis ==
    /\ pc = "while"
    /\ str_upper(procedure_command) # EXIT
    /\ procedure_command # <<>>
    /\ handled' = IF handled < MaxHandled THEN handled + 1 ELSE handled
    /\ caller' = "custom"
    /\ console' = print(console, <<Line(RUNNING_ANALYSIS_MESSAGE, <<>>, <<>>)>>)
    /\ shop_names' = <<procedure_command>>
    /\ shops' = <<>>
    /\ analysed' = {}
    /\ pc' = "for_shop_name"
    /\ UNCHANGED <<STOP_WORDS, procedure_command, response, shop_listings, exc,
                   arg, ret>>

\* an exception leaves the analysis: the except clauses of __main__
HandleException ==
    /\ pc = "raised"
    /\ IF caller = "default" /\ exc = "ConnectionError"
       THEN \* input(CONNECTION_ERROR_MESSAGE), then default_analysis() again
            /\ pc' = "default_analysis"
            /\ console' = <<>>
            /\ exc' = "none"
            /\ NoCall
       ELSE IF caller = "custom" /\ exc = "TypeError"
       THEN /\ pc' = "prompt"
            /\ console' = print(console, <<Line(CANNOT_FIND_SHOP_ERROR_MESSAGE,
                                                <<>>, <<>>)>>)
            /\ exc' = "none"
            /\ NoCall
       ELSE IF caller = "custom" /\ exc = "ConnectionError"
       THEN /\ pc' = "prompt"
            /\ console' = print(console, <<Line(CONNECTION_ERROR_MESSAGE,
                                                <<>>, <<>>)>>)
            /\ exc' = "none"
            /\ NoCall
       ELSE \* no except clause matches: the traceback ends the program
            /\ pc' = "crashed"
            /\ UNCHANGED <<exc, console, shop_names, shops, response,
                           shop_listings, analysed>>
    /\ UNCHANGED <<STOP_WORDS, procedure_command, caller, handled, arg, ret>>

Next ==
    \/ Welcome
    \/ DefaultAnalysis
    \/ GetShopListings
    \/ AnalyseShop
    \/ ShopNotFound
    \/ PrintAnalysis
    \/ ReadCommand
    \/ ExitCommand
    \/ NoUserInput
    \/ CustomAnalysis
    \/ HandleException

Spec == Init /\ [][Next]_vars

-----------------------------------------------------------------------------
(* Properties of the functions *)

Min(a, b) == IF a <= b THEN a ELSE b

\* the k-th smallest element of a set of numbers
Nth(indices, k) ==
    CHOOSE i \in indices : Cardinality({j \in indices : j <= i}) = k

AlphaPositions(word) == {i \in DOMAIN word : char_isalpha(word[i])}

Occurrences(words, word) == Cardinality({i \in DOMAIN words : words[i] = word})

RECURSIVE SumOfValues(_)
SumOfValues(counts) ==
    IF DOMAIN counts = {} THEN 0
    ELSE LET k == CHOOSE key \in DOMAIN counts : TRUE
         IN  counts[k] + SumOfValues([key \in DOMAIN counts \ {k} |-> counts[key]])

\* C9: remove_non_alpha(T) is exactly the alphabetic characters of T, in
\* their order and with their case: it holds no other character, the empty
\* token gives the empty token, and a second application changes nothing.
C9_RemoveNonAlphaKeepsExactlyTheLetters ==
    pc = "returned" =>
        LET out == ret.val
            letters == AlphaPositions(arg)
        IN  /\ ret.exc = "none"
            /\ Len(out) = Cardinality(letters)
            /\ \A k \in DOMAIN out : out[k] = arg[Nth(letters, k)]
            /\ \A k \in DOMAIN out : char_isalpha(out[k])
            /\ (arg = <<>> => out = <<>>)
            /\ remove_non_alpha(out) = out

C9_Witness ==
    /\ pc = "returned"
    /\ arg = <<"a", "1", "Z">>
    /\ ret.val = <<"a", "Z">>

ExpectedTokens(listing, key) ==
    IF key \in DOMAIN listing THEN str_split(str_upper(listing[key])) ELSE <<>>

RECURSIVE ExpectedWords(_)
ExpectedWords(listings) ==
    IF listings = <<>> THEN <<>>
    ELSE ExpectedWords(SubSeq(listings, 1, Len(listings) - 1))
         \o ExpectedTokens(listings[Len(listings)], "description")
         \o ExpectedTokens(listings[Len(listings)], "title")

\* C7: get_descriptions_and_titles never raises; each listing contributes
\* the upper-cased, white-space-split tokens of its description and then of
\* its title, nothing for a field it lacks, and a present field contributes
\* whether or not the other field is there.
C7_AbsentFieldsContributeNothing ==
    pc = "returned" =>
        /\ ret.exc = "none"
        /\ ret.val = ExpectedWords(arg)

C7_Witness ==
    /\ pc = "returned"
    /\ Len(arg) = 2
    /\ DOMAIN arg[1] = {"title"}
    /\ arg[1]["title"] = <<"a", " ", "B">>
    /\ DOMAIN arg[2] = {}
    /\ ret.val = <<<<"A">>, <<"B">>>>

\* C5: get_unique_terms_counts(S) has exactly the distinct tokens of S as
\* its keys, maps each to the number of its occurrences in S, its counts sum
\* to len(S), and the empty list gives the empty mapping.
C5_CountsAreExact ==
    pc = "returned" =>
        /\ ret.exc = "none"
        /\ DOMAIN ret.val = Range(arg)
        /\ \A word \in Range(arg) : ret.val[word] = Occurrences(arg, word)
        /\ SumOfValues(ret.val) = Len(arg)
        /\ (arg = <<>> => DOMAIN ret.val = {})

C5_Witness ==
    /\ pc = "returned"
    /\ arg = <<<<"A">>, <<"B">>, <<"A">>, <<"A">>>>
    /\ ret.val[<<"A">>] = 3
    /\ ret.val[<<"B">>] = 1

DistinctTokens(words) == Cardinality(Range(words))

\* C1: get_top_n_counts(words, N) returns without raising, and returns
\* min(N, number of distinct tokens) pairs.
C1_TopNNeverRaises ==
    pc = "returned" =>
        /\ ret.exc = "none"
        /\ Len(ret.val) = Min(arg.n, DistinctTokens(arg.words))

\* C4: for N up to the number of distinct tokens, the pairs returned have
\* non-increasing counts, each count is the token's number of occurrences,
\* no token is in two pairs, and no token left out occurs more often than a
\* returned one.
C4_TopNIsSortedAndExact ==
    (pc = "returned" /\ arg.n <= DistinctTokens(arg.words)) =>
        LET top == ret.val
            chosen == {top[i][1] : i \in DOMAIN top}
        IN  /\ ret.exc = "none"
            /\ \A i, j \in DOMAIN top : i < j => top[i][2] >= top[j][2]
            /\ \A i \in DOMAIN top : top[i][2] = Occurrences(arg.words, top[i][1])
            /\ \A i, j \in DOMAIN top : i # j => top[i][1] # top[j][1]
            /\ \A word \in Range(arg.words) \ chosen :
                  \A i \in DOMAIN top : Occurrences(arg.words, word) <= top[i][2]

C4_Witness ==
    /\ pc = "returned"
    /\ arg.words = <<<<"A">>, <<"B">>, <<"B">>, <<"C">>>>
    /\ arg.n = 2
    /\ ret.val = <<<<<<"B">>, 2>>, <<<<"C">>, 1>>>>

-----------------------------------------------------------------------------
(* Properties of the program *)

\* the interactive session is over: the loop was left, or a traceback ended
\* the program while custom_analysis was running
SessionOver == pc = "exited" \/ (pc = "crashed" /\ caller = "custom")

\* C2: no failure while an entered shop name is handled ends the interactive
\* session; the session ends only when the user enters the exit command.
C2_SessionEndsOnlyOnExit ==
    SessionOver =>
        /\ pc = "exited"
        /\ exc = "none"
        /\ str_upper(procedure_command) = EXIT

\* the call of get_shops_and_listings at hand has come to its end, and not
\* by a connectivity failure: it is about to return, it has returned and its
\* result is printed, or an exception has left it
CallEnded ==
    /\ shop_names # <<>>
    /\ \/ pc = "for_shop_name" /\ shop_index > Len(shop_names)
       \/ pc = "prompt"
       \/ pc \in {"raised", "crashed"} /\ exc # "ConnectionError"

NotFoundEntries == {i \in DOMAIN shops : shops[i][2].tag = "None"}

SaysCannotFind(shop_name) ==
    \E k \in DOMAIN console :
        /\ console[k].text = CANNOT_FIND_SHOP_ERROR_MESSAGE
        /\ console[k].shop = shop_name

\* C3: for a shop the listing source reports as not found, the analysis
\* pipeline is not invoked and the entry is None; once the call has ended,
\* every shop name after it has been fetched and processed as well, and once
\* the result is printed the entry is rendered as the cannot-find message.
C3_NotFoundShopIsSkippedAndTheRestProcessed ==
    /\ \A i \in NotFoundEntries : i \notin analysed
    /\ (pc = "if_shop_listings" /\ ~Truthy(shop_listings)) => shop_index \notin analysed
    /\ CallEnded =>
          \A i \in NotFoundEntries :
              /\ Len(shops) = Len(shop_names)
              /\ pc \notin {"raised", "crashed"}
              /\ pc = "prompt" => SaysCannotFind(shops[i][1])

\* the response stands for a shop without retrievable listings: a status
\* other than 200, a body that is no JSON or has no results array, or an
\* empty result set
NoListings(shop) ==
    /\ shop.kind = "response"
    /\ \/ shop.status_code # 200
       \/ shop.text.json \in {"invalid", "array"}
       \/ "results" \notin DOMAIN shop.text.members
       \/ shop.text.members["results"] = <<>>

\* C8: a non-200 status, an empty result set or a malformed 200 response
\* makes the shop's entry None, and no error leaves get_shops_and_listings.
C8_NoListingsMeansNotFound ==
    NoListings(response) =>
        /\ exc = "none"
        /\ pc \notin {"raised", "crashed"}
        /\ pc = "if_shop_listings" => ~Truthy(shop_listings)
        /\ pc \in {"for_shop_name", "prompt"} =>
              /\ Len(shops) > 0
              /\ shops[Len(shops)] = <<shop_names[Len(shops)], PyNone>>

\* C10: the loop body runs at most once on a line read at the prompt: after
\* a command that is not the exit command the prompt is shown again before
\* the command is looked at a second time.
C10_EachLineHandledOnce == handled <= 1

====
